---- MODULE Spec2Model ----
(***************************************************************************)
(* A model of ncollide's BruteForceSimplex (the exhaustive reference       *)
(* solver of the Simplex contract) and of the AnnotatedPoint value type.   *)
(*                                                                         *)
(* Scalar is modelled as an exact rational <<num, den>> in lowest terms    *)
(* with den > 0; a zero denominator stands for the non-finite value that   *)
(* a floating point division by zero produces (0/0 = NaN).  Rounding is    *)
(* not modelled: every statement below is about exact arithmetic.          *)
(***************************************************************************)
EXTENDS Integers, Sequences, FiniteSets, TLC

(***************************************************************************)
(* Bounds of the model and the build's constants.                          *)
(***************************************************************************)
\* na::dim::<_V>(): the dimension of the vector type the build selects.
N == 2
\* Largest x coordinate of the points handed to the simplex.
MaxX == 1
\* Width, in bits, of the modelled unsigned machine integer (uint).
UintBits == 16
\* The inherent add_point has no capacity check; the model stops it here.
MaxLen == N + 2
\* Threads that share the subdivision cache.
NThreads == 2
\* Bezier surfaces (their addresses are the keys of the cache).
NKeys == 2
\* References that exist, or are being made, at one time.
MaxRefs == 3

(***************************************************************************)
(* Scalar arithmetic.  Operands are bound by quantifiers over singleton    *)
(* sets, which evaluates each of them once.                                *)
(***************************************************************************)
Abs(x) == IF x < 0 THEN -x ELSE x

RECURSIVE Gcd(_, _)
Gcd(a, b) == IF b = 0 THEN a ELSE Gcd(b, a % b)

\* The scalar n/d in lowest terms; d = 0 gives the non-finite value.
Rat(n, d) ==
    IF d = 0 THEN <<0, 0>>
    ELSE IF d = 1 THEN <<n, 1>>
    ELSE CHOOSE r \in {IF d < 0 THEN <<-(n \div g), -(d \div g)>>
                       ELSE <<n \div g, d \div g>> :
                       g \in {Gcd(Abs(n), Abs(d))}} : TRUE

Zero == <<0, 1>>
One == <<1, 1>>
NaN == <<0, 0>>
IsFinite(a) == a[2] # 0

RAdd(x, y) ==
    CHOOSE r \in {IF a[2] = 0 \/ b[2] = 0 THEN NaN
                  ELSE IF a[2] = b[2] THEN Rat(a[1] + b[1], a[2])
                  ELSE Rat(a[1] * b[2] + b[1] * a[2], a[2] * b[2]) :
                  a \in {x}, b \in {y}} : TRUE
RNeg(x) == CHOOSE r \in {<<-a[1], a[2]>> : a \in {x}} : TRUE
RSub(x, y) == RAdd(x, RNeg(y))
RMul(x, y) ==
    CHOOSE r \in {IF a[2] = 0 \/ b[2] = 0 THEN NaN
                  ELSE Rat(a[1] * b[1], a[2] * b[2]) :
                  a \in {x}, b \in {y}} : TRUE
RDiv(x, y) ==
    CHOOSE r \in {IF a[2] = 0 \/ b[2] = 0 THEN NaN
                  ELSE Rat(a[1] * b[2], a[2] * b[1]) :
                  a \in {x}, b \in {y}} : TRUE
\* Comparisons with a non-finite operand are false, as for floats.
RGt(x, y) ==
    \E a \in {x}, b \in {y} :
        IsFinite(a) /\ IsFinite(b) /\ a[1] * b[2] > b[1] * a[2]
RGe(x, y) ==
    \E a \in {x}, b \in {y} :
        IsFinite(a) /\ IsFinite(b) /\ a[1] * b[2] >= b[1] * a[2]

(***************************************************************************)
(* Vectors: sequences of N scalars.                                        *)
(***************************************************************************)
Dims == 1..N
VZero == [k \in Dims |-> Zero]
VAdd(x, y) ==
    CHOOSE r \in {[k \in Dims |-> RAdd(a[k], b[k])] : a \in {x}, b \in {y}} : TRUE
VSub(x, y) ==
    CHOOSE r \in {[k \in Dims |-> RSub(a[k], b[k])] : a \in {x}, b \in {y}} : TRUE
VNeg(x) == CHOOSE r \in {[k \in Dims |-> RNeg(a[k])] : a \in {x}} : TRUE
VMul(x, n) ==
    CHOOSE r \in {[k \in Dims |-> RMul(a[k], s)] : a \in {x}, s \in {n}} : TRUE
VDiv(x, n) ==
    CHOOSE r \in {[k \in Dims |-> RDiv(a[k], s)] : a \in {x}, s \in {n}} : TRUE
VIsFinite(a) == \A k \in Dims : IsFinite(a[k])

RECURSIVE DotFrom(_, _, _)
DotFrom(a, b, k) ==
    IF k > N THEN Zero ELSE RAdd(RMul(a[k], b[k]), DotFrom(a, b, k + 1))
Dot(x, y) == CHOOSE r \in {DotFrom(a, b, 1) : a \in {x}, b \in {y}} : TRUE
SubDot(a, b, c) == Dot(VSub(a, b), c)
SqNorm(a) == Dot(a, a)
\* na::norm(p) > na::norm(q): the square root is increasing on the
\* non-negative scalars, so the norms compare as the squared norms do.
NormGt(p, q) == RGt(SqNorm(p), SqNorm(q))

(***************************************************************************)
(* Square matrices (DMat): sequences of rows.  Index k of the code is      *)
(* index k + 1 here.                                                       *)
(***************************************************************************)
RemoveAt(s, i) == [k \in 1..(Len(s) - 1) |-> IF k < i THEN s[k] ELSE s[k + 1]]
Minor(m, r, c) == [i \in 1..(Len(m) - 1) |-> RemoveAt(RemoveAt(m, r)[i], c)]
Sign(k) == IF k % 2 = 0 THEN One ELSE RNeg(One)

\* Laplace expansion along the first row.  The minor is bound by a
\* quantifier so that it is evaluated once.
RECURSIVE Det(_), DetFrom(_, _)
Det(m) ==
    IF Len(m) = 0 THEN One
    ELSE IF Len(m) = 1 THEN m[1][1]
    ELSE DetFrom(m, 1)
DetFrom(m, j) ==
    IF j > Len(m) THEN Zero
    ELSE CHOOSE d \in {RAdd(RMul(RMul(Sign(1 + j), m[1][j]), Det(minor)),
                            DetFrom(m, j + 1)) :
                       minor \in {Minor(m, 1, j)}} : TRUE

\* mat.inv(): FALSE when the matrix is singular, and otherwise the matrix
\* becomes its inverse.  at(i, j) of the inverse is the cofactor of (j, i)
\* over the determinant; only the entries the caller reads are computed.
Inv(mat) ==
    CHOOSE r \in {[ok |-> det # Zero, det |-> det] : det \in {Det(mat)}} : TRUE
InvAt(mat, inv, i, j) ==
    CHOOSE a \in {RDiv(RMul(Sign(i + j), Det(minor)), inv.det) :
                  minor \in {Minor(mat, j, i)}} : TRUE

(***************************************************************************)
(* BruteForceSimplex.  Intermediate values are bound by quantifiers over   *)
(* singleton sets, which evaluates each of them once.                      *)
(***************************************************************************)
None == [some |-> FALSE, val |-> VZero]
Some(v) == [some |-> TRUE, val |-> v]

\* Mutant: the sign of the weights is not tested.
RECURSIVE WeightLoopNoSignTest(_, _, _, _, _, _)
WeightLoopNoSignTest(points, mat, inv, i, res, normalizer) ==
    IF i > Len(points) THEN Some(VDiv(res, normalizer))
    ELSE CHOOSE r \in
           {CHOOSE w \in
              {WeightLoopNoSignTest(points, mat, inv, i + 1, res2, normalizer2) :
               res2 \in {VAdd(res, VMul(points[i], offset))},
               normalizer2 \in {RAdd(normalizer, offset)}} : TRUE :
            offset \in {InvAt(mat, inv, i, 1)}} : TRUE

\* Mutant: a weight of zero is accepted (>= for >).
RECURSIVE WeightLoopAcceptsZero(_, _, _, _, _, _)
WeightLoopAcceptsZero(points, mat, inv, i, res, normalizer) ==
    IF i > Len(points) THEN Some(VDiv(res, normalizer))
    ELSE CHOOSE r \in
           {IF RGe(offset, Zero)
            THEN CHOOSE w \in
                   {WeightLoopAcceptsZero(points, mat, inv, i + 1, res2,
                                          normalizer2) :
                    res2 \in {VAdd(res, VMul(points[i], offset))},
                    normalizer2 \in {RAdd(normalizer, offset)}} : TRUE
            ELSE None :
            offset \in {InvAt(mat, inv, i, 1)}} : TRUE

\* for i in range(0u, dim): the weights are read from column 0 of the
\* inverse; the first one that is not positive rejects the subsimplex.
RECURSIVE WeightLoop(_, _, _, _, _, _)
WeightLoop(points, mat, inv, i, res, normalizer) ==
    IF i > Len(points) THEN Some(VDiv(res, normalizer))
    ELSE CHOOSE r \in
           {IF RGt(offset, Zero)
            THEN CHOOSE w \in
                   {WeightLoop(points, mat, inv, i + 1, res2, normalizer2) :
                    res2 \in {VAdd(res, VMul(points[i], offset))},
                    normalizer2 \in {RAdd(normalizer, offset)}} : TRUE
            ELSE None :
            offset \in {InvAt(mat, inv, i, 1)}} : TRUE

ProjectOnSubsimplexMat(points) ==
    LET dim == Len(points)
    IN  [i \in 1..dim |-> [j \in 1..dim |->
            IF i = 1 THEN One
            ELSE SubDot(points[i], points[1], points[j])]]

ProjectOnSubsimplex(points) ==
    CHOOSE r \in
      {CHOOSE q \in {IF ~inv.ok THEN None
                     ELSE WeightLoop(points, mat, inv, 1, VZero, Zero) :
                     inv \in {Inv(mat)}} : TRUE :
       mat \in {ProjectOnSubsimplexMat(points)}} : TRUE

RECURSIVE ProjectOnSubsimplices(_), SubsimplexLoop(_, _, _, _)
\* [ok, proj, pts]: ok is FALSE when bestproj.unwrap() fails.
ProjectOnSubsimplices(points) ==
    IF Len(points) = 1
    THEN [ok |-> TRUE, proj |-> points[1], pts |-> points]
    ELSE CHOOSE r \in {SubsimplexLoop(points, 1, first, points) :
                        first \in {ProjectOnSubsimplex(points)}} : TRUE
\* Mutant: with no projection yet (None), bestproj is replaced and bestpts
\* is left as it was.
RECURSIVE SubsimplexLoopKeepsPts(_, _, _, _)
SubsimplexLoopKeepsPts(points, i, bestproj, bestpts) ==
    IF i > Len(points)
    THEN [ok |-> bestproj.some, proj |-> bestproj.val, pts |-> bestpts]
    ELSE CHOOSE r \in
           {CHOOSE q \in
              {IF ~bestproj.some
               THEN SubsimplexLoopKeepsPts(points, i + 1, Some(sub.proj), bestpts)
               ELSE IF NormGt(bestproj.val, sub.proj)
               THEN SubsimplexLoopKeepsPts(points, i + 1, Some(sub.proj), sub.pts)
               ELSE SubsimplexLoopKeepsPts(points, i + 1, bestproj, bestpts) :
               sub \in {ProjectOnSubsimplices(subsimplex)}} : TRUE :
            subsimplex \in {RemoveAt(points, i)}} : TRUE

\* Mutant: the subsimplex without point i starts with the points after i.
RECURSIVE SubsimplexLoopRotates(_, _, _, _)
SubsimplexLoopRotates(points, i, bestproj, bestpts) ==
    IF i > Len(points)
    THEN [ok |-> bestproj.some, proj |-> bestproj.val, pts |-> bestpts]
    ELSE CHOOSE r \in
           {CHOOSE q \in
              {LET better == ~bestproj.some \/ NormGt(bestproj.val, sub.proj)
               IN  IF better
                   THEN SubsimplexLoopRotates(points, i + 1, Some(sub.proj),
                                              sub.pts)
                   ELSE SubsimplexLoopRotates(points, i + 1, bestproj, bestpts) :
               sub \in {ProjectOnSubsimplices(subsimplex)}} : TRUE :
            subsimplex \in {SubSeq(points, i + 1, Len(points))
                              \o SubSeq(points, 1, i - 1)}} : TRUE

\* for i in range(0u, points.len()): the candidate without point i replaces
\* the best one when there is none yet or when its norm is strictly smaller.
SubsimplexLoop(points, i, bestproj, bestpts) ==
    IF i > Len(points)
    THEN [ok |-> bestproj.some, proj |-> bestproj.val, pts |-> bestpts]
    ELSE CHOOSE r \in
           {CHOOSE q \in
              {LET better == ~bestproj.some \/ NormGt(bestproj.val, sub.proj)
               IN  IF better
                   THEN SubsimplexLoop(points, i + 1, Some(sub.proj), sub.pts)
                   ELSE SubsimplexLoop(points, i + 1, bestproj, bestpts) :
               sub \in {ProjectOnSubsimplices(subsimplex)}} : TRUE :
            subsimplex \in {RemoveAt(points, i)}} : TRUE

\* Mutant: the list is replaced by the reduction whatever the flag.
DoProjectOriginAlwaysReduces(self, reduce) ==
    CHOOSE d \in {[abort  |-> ~r.ok,
                   res    |-> r.proj,
                   points |-> r.pts] :
                  r \in {ProjectOnSubsimplices(self)}} : TRUE

\* Mutant: when reducing, the first retained point is returned.
DoProjectOriginReturnsVertex(self, reduce) ==
    CHOOSE d \in {[abort  |-> ~r.ok,
                   res    |-> IF reduce /\ r.pts # <<>> THEN r.pts[1] ELSE r.proj,
                   points |-> IF reduce THEN r.pts ELSE self] :
                  r \in {ProjectOnSubsimplices(self)}} : TRUE

\* [abort, res, points]: the returned value and the simplex's points after.
DoProjectOrigin(self, reduce) ==
    CHOOSE d \in {[abort  |-> ~r.ok,
                   res    |-> r.proj,
                   points |-> IF reduce THEN r.pts ELSE self] :
                  r \in {ProjectOnSubsimplices(self)}} : TRUE

(***************************************************************************)
(* The state: one BruteForceSimplex and the record of the last call.       *)
(***************************************************************************)
VARIABLES
    points,   \* self.points
    op,       \* the operation called last
    arg,      \* the vector handed to translate_by, the point handed to
              \* contains_point (<<>> for the other calls, whose argument,
              \* if any, is the last point of the list)
    before,   \* self.points when it was entered (<<>> after new and reset,
              \* which discard them)
    ret,      \* what it returned: [tag, val]
    prev,     \* a projection call records the projection call made right
              \* before it, if any: [op, ret] (NoPrev otherwise)
    ap,       \* the last AnnotatedPoint operation: [op, self, other, n, res]
    cache,    \* SurfaceSubdivisionTreeCache.cache: key -> [count, value]
    lock,     \* the thread that holds the cache's RWLock for writing, or 0
    refs,     \* the SurfaceSubdivisionTreeRef values: [live, key, value]
    threads   \* each thread's position: [pc, key, ref]

simplex == <<points, op, arg, before, ret, prev>>
subdivision == <<cache, lock, refs, threads>>
vars == <<points, op, arg, before, ret, prev, ap, cache, lock, refs, threads>>

\* The points and the translation vectors the callers pass in.
Point == {v \in [Dims -> {<<c, 1>> : c \in -1..MaxX}] :
            \A k \in 2..N : v[k][1] <= 1}
Vect == [Dims -> {<<c, 1>> : c \in -1..1}]

Unit == [tag |-> "unit", val |-> <<>>]
Abort == [tag |-> "abort", val |-> <<>>]
Value(v) == [tag |-> "vec", val |-> v]
Uint(n) == [tag |-> "uint", val |-> n]
Bool(b) == [tag |-> "bool", val |-> b]

ProjectionOps == {"project_origin", "project_origin_and_reduce"}
NoPrev == [op |-> "", ret |-> Unit]

(***************************************************************************)
(* AnnotatedPoint: a point of the combined space with the two points it    *)
(* comes from.                                                             *)
(***************************************************************************)
AnnotatedPointNew(orig1, orig2, point) ==
    [orig1 |-> orig1, orig2 |-> orig2, point |-> point]
AnnotatedPointZero == AnnotatedPointNew(VZero, VZero, VZero)

\* Mutant: the second witness is added where it is to be subtracted.
AnnotatedPointSubAddsOrig2(a, other) ==
    AnnotatedPointNew(VSub(a.orig1, other.orig1),
                      VAdd(a.orig2, other.orig2),
                      VSub(a.point, other.point))

AnnotatedPointSub(a, other) ==
    AnnotatedPointNew(VSub(a.orig1, other.orig1),
                      VSub(a.orig2, other.orig2),
                      VSub(a.point, other.point))
AnnotatedPointAdd(a, other) ==
    AnnotatedPointNew(VAdd(a.orig1, other.orig1),
                      VAdd(a.orig2, other.orig2),
                      VAdd(a.point, other.point))
AnnotatedPointNeg(a) ==
    AnnotatedPointNew(VNeg(a.orig1), VNeg(a.orig2), VNeg(a.point))
AnnotatedPointDiv(a, n) ==
    AnnotatedPointNew(VDiv(a.orig1, n), VDiv(a.orig2, n), VDiv(a.point, n))
AnnotatedPointMul(a, n) ==
    AnnotatedPointNew(VMul(a.orig1, n), VMul(a.orig2, n), VMul(a.point, n))

\* The norm of a vector whose squared norm has a rational square root.
IsSquare(n) == \E k \in 0..n : k * k = n
ISqrt(n) == CHOOSE k \in 0..n : k * k = n
HasNorm(v) == \E q \in {SqNorm(v)} : IsSquare(q[1]) /\ IsSquare(q[2])
Norm(v) == CHOOSE r \in {<<ISqrt(q[1]), ISqrt(q[2])>> : q \in {SqNorm(v)}} : TRUE
Normalize(v) == VDiv(v, Norm(v))

\* normalize_cpy, and normalize (in place): only the point is normalized.
AnnotatedPointNormalizeCpy(v) ==
    AnnotatedPointNew(v.orig1, v.orig2, Normalize(v.point))
AnnotatedPointNormalize(a) ==
    [a EXCEPT !.point = Normalize(a.point)]

\* == on vectors: every coordinate is equal, and a non-finite coordinate is
\* equal to nothing, as for floats.
VEq(x, y) ==
    \A k \in Dims : IsFinite(x[k]) /\ IsFinite(y[k]) /\ x[k] = y[k]

\* Mutant: the equality is the derived one, which compares every field.
AnnotatedPointEqEveryField(a, other) ==
    /\ VEq(a.orig1, other.orig1)
    /\ VEq(a.orig2, other.orig2)
    /\ VEq(a.point, other.point)

\* PartialEq::eq: only the combined points are compared.
AnnotatedPointEq(a, other) == VEq(a.point, other.point)

\* The annotated points and the scalars the callers pass in: the point of
\* each operand is its first witness minus its second.
Operand == {AnnotatedPointNew(o1, o2, VSub(o1, o2)) : o1 \in Point, o2 \in Point}
Scalar == {<<-1, 1>>, <<0, 1>>, <<2, 1>>, <<1, 2>>}

ApCall(name, a, other, n, res) ==
    [op |-> name, self |-> a, other |-> other, n |-> n, res |-> res]
ApIdle == ApCall("", AnnotatedPointZero, AnnotatedPointZero, One,
                 AnnotatedPointZero)

\* Each behaviour applies one operation to operands it draws.
ApSub ==
    /\ ap = ApIdle
    /\ \E a \in Operand, other \in Operand :
          ap' = ApCall("sub", a, other, One, AnnotatedPointSub(a, other))
    /\ UNCHANGED <<simplex, subdivision>>
ApAdd ==
    /\ ap = ApIdle
    /\ \E a \in Operand, other \in Operand :
          ap' = ApCall("add", a, other, One, AnnotatedPointAdd(a, other))
    /\ UNCHANGED <<simplex, subdivision>>
ApNeg ==
    /\ ap = ApIdle
    /\ \E a \in Operand :
          ap' = ApCall("neg", a, AnnotatedPointZero, One, AnnotatedPointNeg(a))
    /\ UNCHANGED <<simplex, subdivision>>
\* The model divides by the scalars other than zero.
ApDiv ==
    /\ ap = ApIdle
    /\ \E a \in Operand, n \in Scalar \ {Zero} :
          ap' = ApCall("div", a, AnnotatedPointZero, n, AnnotatedPointDiv(a, n))
    /\ UNCHANGED <<simplex, subdivision>>
ApMul ==
    /\ ap = ApIdle
    /\ \E a \in Operand, n \in Scalar :
          ap' = ApCall("mul", a, AnnotatedPointZero, n, AnnotatedPointMul(a, n))
    /\ UNCHANGED <<simplex, subdivision>>
\* The model normalizes the points whose norm is a non-zero rational.
ApNormalizeCpy ==
    /\ ap = ApIdle
    /\ \E a \in Operand :
          /\ a.point # VZero /\ HasNorm(a.point)
          /\ ap' = ApCall("normalize_cpy", a, AnnotatedPointZero, One,
                          AnnotatedPointNormalizeCpy(a))
    /\ UNCHANGED <<simplex, subdivision>>
ApNormalize ==
    /\ ap = ApIdle
    /\ \E a \in Operand :
          /\ a.point # VZero /\ HasNorm(a.point)
          /\ ap' = ApCall("normalize", a, AnnotatedPointZero, Norm(a.point),
                          AnnotatedPointNormalize(a))
    /\ UNCHANGED <<simplex, subdivision>>

(***************************************************************************)
(* SurfaceSubdivisionTreeCache: a map from the address of a surface to a   *)
(* reference count and a shared tree, behind an RWLock that every          *)
(* operation takes for writing.  A thread is at one position of one        *)
(* operation at a time.                                                    *)
(***************************************************************************)
Thread == 1..NThreads
Key == 1..NKeys
RefId == 1..MaxRefs
\* Arc::new yields an allocation no Arc points to: enough names for the
\* trees of the cache and of the references.
TreeId == 1..(MaxRefs + NKeys)

NoThread == 0
NoRef == [live |-> FALSE, key |-> 0, value |-> 0]
Idle == [pc |-> "idle", key |-> 0, ref |-> 0]
At(pc, key, ref) == [pc |-> pc, key |-> key, ref |-> ref]

EmptyCache == [k \in {} |-> [count |-> 0, value |-> 0]]

\* HashMap::find_or_insert_with(key, |_| (0, Arc::new(...)))
FindOrInsertWith(self, key, tree) ==
    IF key \in DOMAIN self THEN self
    ELSE [k \in DOMAIN self \union {key} |->
            IF k = key THEN [count |-> 0, value |-> tree] ELSE self[k]]

\* *elt.mut0() += 1, on uint
Augment(self, key) ==
    [self EXCEPT ![key].count = (@ + 1) % (2 ^ UintBits)]

IncRefCount(self, key) ==
    IF key \in DOMAIN self THEN Augment(self, key) ELSE self

\* Mutant: the entry is kept when its count reaches zero.
ReleaseKeyKeepsEntry(self, key) ==
    IF key \in DOMAIN self
    THEN [self EXCEPT ![key].count = (@ - 1) % (2 ^ UintBits)]
    ELSE self

ReleaseKey(self, key) ==
    IF key \in DOMAIN self
    THEN LET new_count == (self[key].count - 1) % (2 ^ UintBits)
             is_removable == new_count = 0
         IN  IF is_removable
             THEN [k \in DOMAIN self \ {key} |-> self[k]]
             ELSE [self EXCEPT ![key].count = new_count]
    ELSE self

\* The trees some Arc points to, and the allocation Arc::new returns.
TreesInUse ==
    {cache[k].value : k \in DOMAIN cache}
        \union {refs[r].value : r \in {x \in RefId : refs[x].live}}
NewTree == CHOOSE n \in TreeId \ TreesInUse :
               \A m \in TreeId \ TreesInUse : n <= m

\* The place of the reference an operation creates.
FreeRef == CHOOSE r \in RefId : ~refs[r].live /\ \A q \in 1..(r - 1) : refs[q].live

CreatingPcs == {"find_lock", "find_insert", "find_inc", "find_ret",
                "clone_lock", "clone_inc", "clone_ret"}
DroppingPcs == {"drop_lock", "drop_release"}
CloningPcs == {"clone_lock", "clone_inc", "clone_ret"}

\* The model makes a reference only while fewer than MaxRefs exist or are
\* being made.
RoomForRef ==
    Cardinality({r \in RefId : refs[r].live})
        + Cardinality({t \in Thread : threads[t].pc \in CreatingPcs}) < MaxRefs

\* A reference can be borrowed (cloned) until its owner lets go of it, and
\* the owner lets go of it only when nobody borrows it.
Borrowed(r) ==
    \E t \in Thread : threads[t].pc \in CloningPcs /\ threads[t].ref = r
Dropping(r) ==
    \E t \in Thread : threads[t].pc \in DroppingPcs /\ threads[t].ref = r

\* find_or_insert_with(cache, b, data): key is the address of b.
FindCall(t, key) ==
    /\ threads[t].pc = "idle"
    /\ RoomForRef
    /\ threads' = [threads EXCEPT ![t] = At("find_lock", key, 0)]
    /\ UNCHANGED <<cache, lock, refs, simplex, ap>>

\* let mut wcache = cache.write()
FindLock(t) ==
    /\ threads[t].pc = "find_lock"
    /\ lock = NoThread
    /\ lock' = t
    /\ threads' = [threads EXCEPT ![t].pc = "find_insert"]
    /\ UNCHANGED <<cache, refs, simplex, ap>>

FindInsert(t) ==
    /\ threads[t].pc = "find_insert"
    /\ cache' = FindOrInsertWith(cache, threads[t].key, NewTree)
    /\ threads' = [threads EXCEPT ![t].pc = "find_inc"]
    /\ UNCHANGED <<lock, refs, simplex, ap>>

\* augment the ref-count.
FindAugment(t) ==
    /\ threads[t].pc = "find_inc"
    /\ cache' = Augment(cache, threads[t].key)
    /\ threads' = [threads EXCEPT ![t].pc = "find_ret"]
    /\ UNCHANGED <<lock, refs, simplex, ap>>

\* The reference is built and returned; wcache goes out of scope.
FindReturn(t) ==
    /\ threads[t].pc = "find_ret"
    /\ refs' = [refs EXCEPT ![FreeRef] =
                  [live |-> TRUE, key |-> threads[t].key,
                   value |-> cache[threads[t].key].value]]
    /\ lock' = NoThread
    /\ threads' = [threads EXCEPT ![t] = Idle]
    /\ UNCHANGED <<cache, simplex, ap>>

\* Clone::clone(&self)
CloneCall(t, r) ==
    /\ threads[t].pc = "idle"
    /\ refs[r].live /\ ~Dropping(r)
    /\ RoomForRef
    /\ threads' = [threads EXCEPT ![t] = At("clone_lock", refs[r].key, r)]
    /\ UNCHANGED <<cache, lock, refs, simplex, ap>>

\* self.parent_cache.write()
CloneLock(t) ==
    /\ threads[t].pc = "clone_lock"
    /\ lock = NoThread
    /\ lock' = t
    /\ threads' = [threads EXCEPT ![t].pc = "clone_inc"]
    /\ UNCHANGED <<cache, refs, simplex, ap>>

\* .inc_ref_count(self.key); the guard goes at the end of the statement.
CloneIncRefCount(t) ==
    /\ threads[t].pc = "clone_inc"
    /\ cache' = IncRefCount(cache, threads[t].key)
    /\ lock' = NoThread
    /\ threads' = [threads EXCEPT ![t].pc = "clone_ret"]
    /\ UNCHANGED <<refs, simplex, ap>>

CloneReturn(t) ==
    /\ threads[t].pc = "clone_ret"
    /\ refs' = [refs EXCEPT ![FreeRef] =
                  [live |-> TRUE, key |-> refs[threads[t].ref].key,
                   value |-> refs[threads[t].ref].value]]
    /\ threads' = [threads EXCEPT ![t] = Idle]
    /\ UNCHANGED <<cache, lock, simplex, ap>>

\* Drop::drop(&mut self): the owner has let go of the reference.
DropCall(t, r) ==
    /\ threads[t].pc = "idle"
    /\ refs[r].live /\ ~Dropping(r) /\ ~Borrowed(r)
    /\ threads' = [threads EXCEPT ![t] = At("drop_lock", refs[r].key, r)]
    /\ UNCHANGED <<cache, lock, refs, simplex, ap>>

\* self.parent_cache.write()
DropLock(t) ==
    /\ threads[t].pc = "drop_lock"
    /\ lock = NoThread
    /\ lock' = t
    /\ threads' = [threads EXCEPT ![t].pc = "drop_release"]
    /\ UNCHANGED <<cache, refs, simplex, ap>>

\* .release_key(self.key); the guard goes, and then the fields of the
\* reference.
DropReleaseKey(t) ==
    /\ threads[t].pc = "drop_release"
    /\ cache' = ReleaseKey(cache, threads[t].key)
    /\ lock' = NoThread
    /\ refs' = [refs EXCEPT ![threads[t].ref] = NoRef]
    /\ threads' = [threads EXCEPT ![t] = Idle]
    /\ UNCHANGED <<simplex, ap>>

\* cache.write().clear()
ClearCall(t) ==
    /\ threads[t].pc = "idle"
    /\ threads' = [threads EXCEPT ![t] = At("clear_lock", 0, 0)]
    /\ UNCHANGED <<cache, lock, refs, simplex, ap>>

ClearLock(t) ==
    /\ threads[t].pc = "clear_lock"
    /\ lock = NoThread
    /\ lock' = t
    /\ threads' = [threads EXCEPT ![t].pc = "clear"]
    /\ UNCHANGED <<cache, refs, simplex, ap>>

Clear(t) ==
    /\ threads[t].pc = "clear"
    /\ cache' = EmptyCache
    /\ lock' = NoThread
    /\ threads' = [threads EXCEPT ![t] = Idle]
    /\ UNCHANGED <<refs, simplex, ap>>

Init ==
    /\ points = <<>>
    /\ op = "new"
    /\ arg = <<>>
    /\ before = <<>>
    /\ ret = Unit
    /\ prev = NoPrev
    /\ ap = ApIdle
    /\ cache = EmptyCache
    /\ lock = NoThread
    /\ refs = [r \in RefId |-> NoRef]
    /\ threads = [t \in Thread |-> Idle]

New ==
    /\ points' = <<>>
    /\ op' = "new"
    /\ arg' = <<>>
    /\ before' = <<>>
    /\ ret' = Unit
    /\ prev' = NoPrev
    /\ UNCHANGED <<ap, subdivision>>

\* The inherent method: what simplex.add_point(pt) resolves to on a
\* BruteForceSimplex value.  It has no capacity check; the model stops it
\* at MaxLen points, and follows the Simplex operations below on the
\* simplices of the contract, of at most N + 1 points: a simplex that holds
\* more can only be reset or replaced by a new one.
AddPointInherent(pt) ==
    /\ Len(points) < MaxLen
    /\ points' = Append(points, pt)
    /\ op' = "add_point_inherent"
    /\ arg' = <<>>
    /\ before' = points
    /\ ret' = Unit
    /\ prev' = NoPrev
    /\ UNCHANGED <<ap, subdivision>>

Reset(initial_point) ==
    /\ points' = <<initial_point>>
    /\ op' = "reset"
    /\ arg' = <<>>
    /\ before' = <<>>
    /\ ret' = Unit
    /\ prev' = NoPrev
    /\ UNCHANGED <<ap, subdivision>>

\* Simplex::add_point: the assertion fails when N + 1 points are held.
AddPoint(pt) ==
    /\ Len(points) <= N + 1
    /\ op' = "add_point"
    /\ arg' = <<>>
    /\ before' = points
    /\ prev' = NoPrev
    /\ UNCHANGED <<ap, subdivision>>
    /\ IF Len(points) <= N
       THEN points' = Append(points, pt) /\ ret' = Unit
       ELSE points' = points /\ ret' = Abort

\* self.points.len() - 1 on uint: the subtraction wraps.
DimensionOf(self) == (Len(self) - 1) % (2 ^ UintBits)

Dimension ==
    /\ Len(points) <= N + 1
    /\ op' = "dimension"
    /\ arg' = <<>>
    /\ before' = points
    /\ prev' = NoPrev
    /\ UNCHANGED <<ap, subdivision>>
    /\ ret' = Uint(DimensionOf(points))
    /\ UNCHANGED points

RECURSIVE MaxSqLenFrom(_, _, _)
MaxSqLenFrom(self, i, max_sq_len) ==
    IF i > Len(self) THEN max_sq_len
    ELSE CHOOSE r \in
           {MaxSqLenFrom(self, i + 1,
                         IF RGt(norm, max_sq_len) THEN norm ELSE max_sq_len) :
            norm \in {SqNorm(self[i])}} : TRUE
MaxSqLen(self) == MaxSqLenFrom(self, 1, Zero)

ContainsPoint(self, pt) == \E i \in 1..Len(self) : pt = self[i]

\* contains_point of a simplex of annotated points: == is AnnotatedPoint's.
ContainsAnnotatedPoint(self, pt) ==
    \E i \in 1..Len(self) : AnnotatedPointEq(pt, self[i])

ContainsPointCall(pt) ==
    /\ Len(points) <= N + 1
    /\ op' = "contains_point"
    /\ arg' = pt
    /\ before' = points
    /\ prev' = NoPrev
    /\ ret' = Bool(ContainsAnnotatedPoint(points, pt))
    /\ UNCHANGED <<points, ap, subdivision>>

ProjectOriginAndReduce ==
    /\ Len(points) <= N + 1
    /\ op' = "project_origin_and_reduce"
    /\ arg' = <<>>
    /\ before' = points
    /\ prev' = IF op \in ProjectionOps THEN [op |-> op, ret |-> ret] ELSE NoPrev
    /\ UNCHANGED <<ap, subdivision>>
    /\ \E r \in {DoProjectOrigin(points, TRUE)} :
          IF r.abort
          THEN points' = points /\ ret' = Abort
          ELSE points' = r.points /\ ret' = Value(r.res)

ProjectOrigin ==
    /\ Len(points) <= N + 1
    /\ op' = "project_origin"
    /\ arg' = <<>>
    /\ before' = points
    /\ prev' = IF op \in ProjectionOps THEN [op |-> op, ret |-> ret] ELSE NoPrev
    /\ UNCHANGED <<ap, subdivision>>
    /\ IF points = <<>>
       THEN points' = points /\ ret' = Abort
       ELSE \E r \in {DoProjectOrigin(points, FALSE)} :
               IF r.abort
               THEN points' = points /\ ret' = Abort
               ELSE points' = r.points /\ ret' = Value(r.res)

\* Mutant: the loop stops before the last point.
TranslatedButLast(self, v) ==
    [i \in 1..Len(self) |-> IF i = Len(self) /\ i > 1 THEN self[i]
                            ELSE VAdd(self[i], v)]

\* for p in self.points.mut_iter(): *p = *p + *v
Translated(self, v) == [i \in 1..Len(self) |-> VAdd(self[i], v)]

\* What project_origin returns on a non-empty simplex.
ProjectOriginOf(self) == DoProjectOrigin(self, FALSE).res

\* The model keeps the translated points among the points it enumerates.
TranslateBy(v) ==
    /\ Len(points) <= N + 1
    /\ \A i \in 1..Len(points) : VAdd(points[i], v) \in Point
    /\ points' = Translated(points, v)
    /\ op' = "translate_by"
    /\ arg' = v
    /\ before' = points
    /\ ret' = Unit
    /\ prev' = NoPrev
    /\ UNCHANGED <<ap, subdivision>>

Next ==
    \/ New
    \/ \E pt \in Point : AddPointInherent(pt)
    \/ \E pt \in Point : Reset(pt)
    \/ \E pt \in Point : AddPoint(pt)
    \/ Dimension
    \/ ProjectOriginAndReduce
    \/ ProjectOrigin
    \/ \E v \in Vect : TranslateBy(v)

Spec == Init /\ [][Next]_vars

NextAnnotated ==
    \/ ApSub
    \/ ApAdd
    \/ ApNeg
    \/ ApDiv
    \/ ApMul
    \/ ApNormalizeCpy
    \/ ApNormalize

SpecAnnotated == Init /\ [][NextAnnotated]_vars

\* A simplex of annotated points, as the distance queries that need the
\* witnesses build it: the witnesses lie on the first axis.
Witness == {v \in Point : \A k \in 2..N : v[k] = Zero}
Support == {AnnotatedPointNew(o1, o2, VSub(o1, o2)) :
              o1 \in Witness, o2 \in Witness}

NextContains ==
    \/ New
    \/ \E pt \in Support : Reset(pt)
    \/ \E pt \in Support : AddPoint(pt)
    \/ \E pt \in Support : ContainsPointCall(pt)

SpecContains == Init /\ [][NextContains]_vars

\* The threads find, clone and drop; none of them clears.
NextCacheNoClear ==
    \E t \in Thread :
        \/ \E key \in Key : FindCall(t, key)
        \/ FindLock(t)
        \/ FindInsert(t)
        \/ FindAugment(t)
        \/ FindReturn(t)
        \/ \E r \in RefId : CloneCall(t, r)
        \/ CloneLock(t)
        \/ CloneIncRefCount(t)
        \/ CloneReturn(t)
        \/ \E r \in RefId : DropCall(t, r)
        \/ DropLock(t)
        \/ DropReleaseKey(t)

SpecCacheNoClear == Init /\ [][NextCacheNoClear]_vars

NextCache ==
    \/ NextCacheNoClear
    \/ \E t \in Thread : ClearCall(t) \/ ClearLock(t) \/ Clear(t)

SpecCache == Init /\ [][NextCache]_vars

(***************************************************************************)
(* Geometry used to state the properties.  None of it is the solver's      *)
(* code: hull membership is decided from barycentric coordinates that are  *)
(* checked against the point they are meant to express.                    *)
(***************************************************************************)
Range(s) == {s[i] : i \in 1..Len(s)}

RECURSIVE PickFrom(_, _, _)
PickFrom(s, I, i) ==
    IF i > Len(s) THEN <<>>
    ELSE IF i \in I THEN <<s[i]>> \o PickFrom(s, I, i + 1)
    ELSE PickFrom(s, I, i + 1)
\* The sub-lists of s: the points at the indices I, in the order of s.
SubLists(s) == {PickFrom(s, I, 1) : I \in SUBSET (1..Len(s))}

Edges(pts) == [i \in 1..(Len(pts) - 1) |-> VSub(pts[i + 1], pts[1])]
Gram(e) == [i \in 1..Len(e) |-> [j \in 1..Len(e) |-> Dot(e[i], e[j])]]
AffinelyIndependent(pts) ==
    /\ Len(pts) >= 1
    /\ Det(Gram(Edges(pts))) # Zero

RECURSIVE RSum(_, _)
RSum(w, i) == IF i > Len(w) THEN Zero ELSE RAdd(w[i], RSum(w, i + 1))
RECURSIVE Combination(_, _, _)
Combination(w, pts, i) ==
    IF i > Len(pts) THEN VZero
    ELSE VAdd(VMul(pts[i], w[i]), Combination(w, pts, i + 1))

\* The barycentric coordinates, in an affinely independent list pts, of
\* the point of its affine hull nearest to x (Cramer's rule on the Gram
\* system of the edges from pts[1]).
Barycentric(x, pts) ==
    CHOOSE w \in
      {CHOOSE v \in
         {<<RSub(One, RSum(l, 1))>> \o l :
          l \in {[i \in 1..Len(e) |->
                   RDiv(Det([r \in 1..Len(e) |-> [c \in 1..Len(e) |->
                               IF c = i THEN Dot(e[r], VSub(x, pts[1]))
                               ELSE g[r][c]]]),
                        Det(g))]}} : TRUE :
       e \in {Edges(pts)}, g \in {Gram(Edges(pts))}} : TRUE

\* x is a convex combination of the affinely independent list pts.
InSimplex(x, pts) ==
    /\ AffinelyIndependent(pts)
    /\ \E w \in {Barycentric(x, pts)} :
          /\ \A i \in 1..Len(pts) : RGe(w[i], Zero)
          /\ RSum(w, 1) = One
          /\ Combination(w, pts, 1) = x

\* x is in the convex hull of pts (Caratheodory: it is then in the hull of
\* an affinely independent sub-list).
InHull(x, pts) == \E t \in SubLists(pts) : InSimplex(x, t)

\* x is the point of the hull of pts nearest to q: it is in the hull and no
\* held point lies strictly on q's side of the hyperplane through x.
IsNearest(x, q, pts) ==
    /\ VIsFinite(x)
    /\ InHull(x, pts)
    /\ \A i \in 1..Len(pts) : RGe(Dot(VSub(x, q), VSub(pts[i], x)), Zero)

IsMinNorm(x, pts) == IsNearest(x, VZero, pts)

(***************************************************************************)
(* Claims                                                                  *)
(***************************************************************************)

\* C1: on a non-empty simplex of at most N + 1 points, degenerate or not,
\* project_origin returns (it does not abort), its result is finite, and
\* the result is the minimum-norm point of the convex hull of the held
\* points.
C1_ProjectOriginIsMinNorm ==
    (op = "project_origin" /\ Len(before) >= 1 /\ Len(before) <= N + 1)
        => (ret.tag = "vec" /\ IsMinNorm(ret.val, before))

\* project_origin has returned on a simplex of N + 1 points that are not
\* affinely independent, with a result that is none of the held points.
C1_Witness ==
    /\ op = "project_origin"
    /\ Len(before) = N + 1
    /\ ~AffinelyIndependent(before)
    /\ ret.tag = "vec"
    /\ ret.val \notin Range(before)

\* C2: after project_origin_and_reduce on a non-empty simplex, the retained
\* points are an affinely independent subset of the points held before, and
\* their convex hull contains the projection the call returned.
C2_ReducedIsIndependentSubset ==
    (op = "project_origin_and_reduce" /\ Len(before) >= 1)
        => /\ ret.tag = "vec"
           /\ Range(points) \subseteq Range(before)
           /\ AffinelyIndependent(points)
           /\ InHull(ret.val, points)

\* The reduction has cut N + 1 affinely dependent points down to a segment.
C2_Witness ==
    /\ op = "project_origin_and_reduce"
    /\ Len(before) = N + 1
    /\ ~AffinelyIndependent(before)
    /\ ret.tag = "vec"
    /\ Len(points) = 2

\* Some sub-list of the list held before the reduction is shorter than the
\* retained list and has the returned projection in its hull.
SmallerSubsetExpresses ==
    \E t \in SubLists(before) : Len(t) < Len(points) /\ InHull(ret.val, t)

\* C3 as stated: after project_origin_and_reduce, no smaller subset of the
\* previously held points has the projection in its convex hull, whatever
\* the insertion order, collinear and duplicated points included.
C3_NoSmallerSubsetOfHeld ==
    (op = "project_origin_and_reduce" /\ Len(before) >= 1 /\ ret.tag = "vec")
        => ~SmallerSubsetExpresses

\* C3 as amended: the projection is in the hull of the retained points and
\* of no proper sub-list of them (every retained point is required); and
\* when the points held before are affinely independent, no smaller subset
\* of them has the projection in its hull.
C3_RetainedIsMinimal ==
    (op = "project_origin_and_reduce" /\ Len(before) >= 1 /\ ret.tag = "vec")
        => /\ InHull(ret.val, points)
           /\ \A t \in SubLists(points) : t # points => ~InHull(ret.val, t)
           /\ AffinelyIndependent(before) => ~SmallerSubsetExpresses

\* The reduction of three collinear points retained a segment although one
\* held point alone is the projection.
C3_Witness ==
    /\ op = "project_origin_and_reduce"
    /\ Len(before) = N + 1
    /\ ~AffinelyIndependent(before)
    /\ ret.tag = "vec"
    /\ Len(points) = 2
    /\ ret.val \in Range(before)

\* C4: project_origin_and_reduce called right after project_origin on the
\* same non-empty simplex returns the identical value, and the list it
\* leaves holds only points of the list held before.
C4_SameProjection ==
    (op = "project_origin_and_reduce" /\ prev.op = "project_origin"
        /\ Len(before) >= 1)
        => /\ ret = prev.ret
           /\ ret.tag = "vec"
           /\ Range(points) \subseteq Range(before)

\* project_origin, then project_origin_and_reduce, on a simplex that the
\* second call shrank.
C4_Witness ==
    /\ op = "project_origin_and_reduce"
    /\ prev.op = "project_origin"
    /\ ret.tag = "vec"
    /\ Len(points) < Len(before)

\* C5 as stated: the number of held points never exceeds N + 1, and an
\* add_point (inherent or Simplex form) issued on N + 1 points aborts and
\* appends nothing.
C5_CapacityRespected ==
    /\ Len(points) <= N + 1
    /\ (op \in {"add_point", "add_point_inherent"} /\ Len(before) = N + 1)
          => (ret.tag = "abort" /\ points = before)

\* C6 as stated: a projection call on an empty simplex aborts: it returns
\* no value and leaves the state as it was.
C6_EmptyProjectionAborts ==
    (op \in ProjectionOps /\ before = <<>>)
        => (ret.tag = "abort" /\ points = before)

\* C7: project_origin leaves the simplex as it was: the same points in the
\* same order, hence the same dimension, max_sq_len and contains_point.
C7_ProjectOriginKeepsState ==
    op = "project_origin"
        => /\ points = before
           /\ DimensionOf(points) = DimensionOf(before)
           /\ MaxSqLen(points) = MaxSqLen(before)
           /\ \A pt \in Point :
                 ContainsPoint(points, pt) = ContainsPoint(before, pt)

\* project_origin has returned on a simplex that a reduction would shrink.
C7_Witness ==
    /\ op = "project_origin"
    /\ ret.tag = "vec"
    /\ Len(ProjectOnSubsimplices(before).pts) < Len(before)

\* C8 as stated: after translate_by(v) on a non-empty simplex S,
\* project_origin yields project_origin(S) plus v.
C8_TranslateCommutes ==
    (op = "translate_by" /\ Len(before) >= 1)
        => ProjectOriginOf(points) = VAdd(ProjectOriginOf(before), arg)

\* C8 as amended: after translate_by(v) on a non-empty simplex S,
\* project_origin yields v plus the point of the hull of S nearest to -v;
\* that is project_origin(S) plus v when S holds a single point.
C8_TranslateShiftsNearest ==
    (op = "translate_by" /\ Len(before) >= 1)
        => /\ IsNearest(VSub(ProjectOriginOf(points), arg), VNeg(arg), before)
           /\ Len(before) = 1
                 => ProjectOriginOf(points) = VAdd(ProjectOriginOf(before), arg)

\* A simplex of several points was translated by a non-zero vector and its
\* projection is not the former projection plus the vector.
C8_Witness ==
    /\ op = "translate_by"
    /\ Len(before) >= 2
    /\ arg # VZero
    /\ ProjectOriginOf(points) # VAdd(ProjectOriginOf(before), arg)

\* C9 as stated: dimension returns the count of held points minus one, in
\* every reachable state, with no wrap-around below zero.
C9_DimensionIsCountMinusOne ==
    op = "dimension" => (ret.tag = "uint" /\ ret.val = Len(points) - 1)

\* In an annotated point, the combined point is witness 1 minus witness 2.
Relation(a) == a.point = VSub(a.orig1, a.orig2)
ArithmeticOps == {"sub", "add", "neg", "div", "mul"}
NormalizeOps == {"normalize_cpy", "normalize"}
OperandsRelated == Relation(ap.self) /\ Relation(ap.other)

\* C10 as stated: every arithmetic operation of AnnotatedPoint, the
\* normalization included, yields a result in which the combined point is
\* witness 1 minus witness 2 when that holds of its operands.
C10_EveryOperationKeepsRelation ==
    (ap.op \in ArithmeticOps \union NormalizeOps /\ OperandsRelated)
        => Relation(ap.res)

\* C10 as amended: add, subtract, negate, scalar multiply and scalar divide
\* keep the relation; the normalization rescales the combined point alone,
\* to norm one, and leaves both witnesses as they were.
C10_ArithmeticKeepsRelation ==
    /\ (ap.op \in ArithmeticOps /\ OperandsRelated) => Relation(ap.res)
    /\ ap.op \in NormalizeOps
          => /\ ap.res.orig1 = ap.self.orig1
             /\ ap.res.orig2 = ap.self.orig2
             /\ SqNorm(ap.res.point) = One
             /\ \E k \in {Norm(ap.self.point)} :
                   RGt(k, Zero) /\ VMul(ap.res.point, k) = ap.self.point

\* A point whose witnesses differ by a vector of norm other than one has
\* been normalized: the relation held of it and does not hold of the result.
C10_Witness ==
    /\ ap.op \in NormalizeOps
    /\ Relation(ap.self)
    /\ ~Relation(ap.res)

\* The combined points of the annotated points of a list.
CombinedPoints(s) == {s[i].point : i \in 1..Len(s)}

\* C11: contains_point(pt) returns true if and only if the combined point of
\* pt is exactly the combined point of some held point; the witnesses are
\* never compared, so an annotated point that is not held, with the combined
\* point of a held one, counts as contained.
C11_ContainsComparesCombinedPoint ==
    op = "contains_point"
        => /\ ret.tag = "bool"
           /\ ret.val = (arg.point \in CombinedPoints(before))
           /\ points = before

\* contains_point has returned true for an annotated point that differs, by
\* its witnesses, from every held point.
C11_Witness ==
    /\ op = "contains_point"
    /\ Len(before) >= 2
    /\ ret = Bool(TRUE)
    /\ arg \notin Range(before)

\* C14: project_origin_and_reduce on a non-empty simplex leaves a non-empty
\* sub-list of the list it found, in the same order; called again right
\* after, it returns the same projection and leaves the list as the first
\* call left it.
C14_ReduceIsIdempotent ==
    /\ (op = "project_origin_and_reduce" /\ Len(before) >= 1)
          => /\ ret.tag = "vec"
             /\ points # <<>>
             /\ points \in SubLists(before)
    /\ (op = "project_origin_and_reduce"
          /\ prev.op = "project_origin_and_reduce" /\ Len(before) >= 1)
          => /\ ret = prev.ret
             /\ points = before

\* project_origin_and_reduce has been called twice in a row; the first
\* call left a segment whose projection is none of its two ends, and the
\* second call has returned.
C14_Witness ==
    /\ op = "project_origin_and_reduce"
    /\ prev.op = "project_origin_and_reduce"
    /\ Len(before) = 2
    /\ ret.tag = "vec"
    /\ ret.val \notin Range(before)

LiveRefs == {r \in RefId : refs[r].live}

\* C12 as stated: whatever the threads have done (find_or_insert_with,
\* clone, drop, clear), the key of every live reference is present in the
\* cache, and the entry under that key holds the tree the reference points
\* to.
C12_KeptWhileReferenced ==
    \A r \in LiveRefs :
        /\ refs[r].key \in DOMAIN cache
        /\ cache[refs[r].key].value = refs[r].value

\* The references counted for a key: the live ones (a reference is no
\* longer live once its drop has released the key) and the ones a clone
\* has counted and is about to return.
Counted(k) ==
    Cardinality({r \in LiveRefs : refs[r].key = k})
        + Cardinality({t \in Thread :
                         threads[t].pc = "clone_ret" /\ threads[t].key = k})

\* C13: with no call to clear, whenever no thread is inside an operation's
\* critical section, a key is present exactly when it has a reference, the
\* count stored for it is the number of its references, and that count is
\* at least one.
C13_CountIsExact ==
    lock = NoThread
        => \A k \in Key :
              /\ k \in DOMAIN cache <=> Counted(k) >= 1
              /\ k \in DOMAIN cache
                    => /\ cache[k].count = Counted(k)
                       /\ cache[k].count >= 1

\* A key counts three references: one is borrowed by a clone that has
\* counted its copy and not returned it yet, and another thread is waiting
\* for the lock to drop one.
C13_Witness ==
    /\ lock = NoThread
    /\ \E k \in DOMAIN cache, t \in Thread, u \in Thread :
          /\ cache[k].count = 3
          /\ threads[t].pc = "clone_ret" /\ threads[t].key = k
          /\ threads[u].pc = "drop_lock" /\ threads[u].key = k

====
